---- MODULE Spec2Model ----
(***************************************************************************)
(* Schema-adaptive parsing engine of tinycrops_lawyer: the schema          *)
(* registry and the methodology store of database/manager.py, the          *)
(* validation routine of parser/gemini.py and the orchestrator             *)
(* MethodologyExecutor.parse of parser/executor.py.                        *)
(*                                                                         *)
(* Every database function is a step of the calling process; the two      *)
(* functions whose read and write the concurrency properties are about     *)
(* (add_schema, add_parsing_methodology) are two steps each: the query     *)
(* and the flush + commit.  Under Spec one call runs at a time, under      *)
(* ConcSpec the calls of two processes interleave.                         *)
(***************************************************************************)
EXTENDS Integers, Sequences, FiniteSets, TLC

VARIABLES
    schemas,        \* table schemas: sequence of rows
    methodologies,  \* table parsing_methodologies: sequence of rows, id = index
    documents,      \* table documents: document_id -> row
    pc,             \* position of each process inside its running call
    call,           \* arguments, locals and history of each process's call
    ret,            \* value returned by each process's last call
    calls,          \* number of calls started so far
    faults,         \* the database statements of this run can fail
    history,        \* the calls that returned, in order (kept in logged runs)
    states,         \* table states: state_code -> processed_count
    places,         \* table places: place_id -> processed_count
    batch           \* the locals of process_batch and its processing run

vars == <<schemas, methodologies, documents, pc, call, ret, calls, faults,
          history, states, places, batch>>

----------------------------------------------------------------------------
(* Bounds *)

MaxCalls == 2       \* calls started in a sequential run
MaxConcCalls == 2   \* calls started in a concurrent run

Procs == {"p1", "p2"}
SeqProcs == {"p1"}

Docs == {"dA", "dB", "dC", "dBad"}
SchemaIds == {"s1", "s2"}

None == "None"
NoId == 0

----------------------------------------------------------------------------
(* Candidate routines.  A routine is known by what running it does. *)

Codes == {"cGood", "cFlaky", "cRaise", "cNonDict", "cNoJson", "cNoEntry",
          "cIO", "cHang", "cLossy"}

\* the candidates the generation service answers with
Candidates == {"cGood", "cFlaky", "cRaise", "cNonDict", "cIO", "cHang"}

\* the routines handed to add_parsing_methodology directly
AddCodes == {"cGood", "cFlaky"}

\* exec(code) followed by parse_html(html): what the run comes to
Run(code, html) ==
    CASE code = "cGood"    -> "ok"
      [] code = "cFlaky"   -> IF html = "hA" THEN "ok" ELSE "raise"
      [] code = "cRaise"   -> "raise"
      [] code = "cNonDict" -> "nondict"
      [] code = "cNoJson"  -> "ok"
      [] code = "cLossy"   -> "ok"
      [] code = "cNoEntry" -> "noentry"
      [] code = "cIO"      -> "ok"
      [] code = "cHang"    -> "hang"

\* the routine opens files or sockets, or reads the caller's globals, on its way
DoesIO(code) == code = "cIO"

AllKeys == {"document_id", "jurisdiction", "document_type", "sections"}

\* a value: what it is, its keys (the items of a list), its document_id
\* and the kinds of things it holds
NoData == [kind |-> "none", keys |-> {}, document_id |-> None, items |-> {}]
DictFull == [kind |-> "dict", keys |-> AllKeys, document_id |-> "unknown",
             items |-> {"str_key", "str", "list"}]
DictPartial == [kind |-> "dict", keys |-> {"sections"}, document_id |-> None,
                items |-> {"str_key", "list"}]
DictEmpty == [kind |-> "dict", keys |-> {}, document_id |-> None, items |-> {}]
\* a list: keys holds its items
ListData == [kind |-> "list", keys |-> {"item"}, document_id |-> None,
             items |-> {"str"}]
ListEmpty == [kind |-> "list", keys |-> {}, document_id |-> None, items |-> {}]
\* a dict holding a set
DictUnserializable == [DictFull EXCEPT !.items = {"str_key", "str", "set"}]
\* a dict with an int key and a tuple
DictLossy == [DictFull EXCEPT !.items = {"int_key", "str", "tuple"}]

\* the value parse_html returns when the run is "ok"
RoutineResult(code, html) ==
    CASE code = "cIO"     -> DictPartial
      [] code = "cFlaky"  -> DictEmpty
      [] code = "cNoJson" -> DictUnserializable
      [] code = "cLossy"  -> DictLossy
      [] OTHER            -> DictFull

JsonEncode(x) ==
    CASE x \in {"tuple", "list"}      -> "array"
      [] x \in {"int_key", "str_key"} -> "string_key"
      [] OTHER                        -> "string"

\* json.dumps(value): the text, or TypeError for a value json cannot write
JsonDumps(value) ==
    IF "set" \in value.items THEN [kind |-> "TypeError"]
    ELSE [kind |-> "text", of |-> value.kind, keys |-> value.keys,
          document_id |-> value.document_id,
          items |-> {JsonEncode(x) : x \in value.items}]

JsonDecode(x) ==
    CASE x = "array"      -> "list"
      [] x = "string_key" -> "str_key"
      [] OTHER            -> "str"

\* json.loads(text)
JsonLoads(text) ==
    [kind |-> text.of, keys |-> text.keys, document_id |-> text.document_id,
     items |-> {JsonDecode(x) : x \in text.items}]

\* json.dumps(result) does not raise TypeError
Serializable(value) == JsonDumps(value).kind # "TypeError"

\* test_parsing_methodology: <<success, result, error>>
test_parsing_methodology(code, html) ==
    LET r == Run(code, html) IN
    CASE r = "ok" /\ Serializable(RoutineResult(code, html)) ->
                          [success |-> TRUE, result |-> RoutineResult(code, html),
                           error |-> None]
      [] r = "ok" /\ ~Serializable(RoutineResult(code, html)) ->
                          [success |-> FALSE, result |-> NoData,
                           error |-> "Result is not JSON serializable"]
      [] r = "noentry" -> [success |-> FALSE, result |-> NoData,
                           error |-> "parse_html function not found in code"]
      [] r = "nondict" -> [success |-> FALSE, result |-> NoData,
                           error |-> "Result is not a dictionary"]
      [] OTHER         -> [success |-> FALSE, result |-> NoData,
                           error |-> "Error executing methodology"]

\* bool(value): None and the empty containers are false
Truthy(data) == data.kind # "none" /\ data.keys # {}

\* result['document_id'] = document_id, for a non-empty dict
SetDocumentId(data, d) ==
    IF data.kind = "dict" /\ data.keys # {}
    THEN [data EXCEPT !.keys = @ \cup {"document_id"}, !.document_id = d]
    ELSE data

----------------------------------------------------------------------------
(* Fingerprinting *)

\* huggingface.get_document_html: the HTML text of a document
get_document_html(d) ==
    CASE d = "dA" -> "hA"
      [] d = "dB" -> "hB"
      [] d = "dC" -> "hC"
      [] OTHER    -> "hBad"

\* extract_schema_signature: the schema id of an HTML text, None when the
\* extraction raises
extract_schema_signature(html) ==
    CASE html = "hA" -> "s1"
      [] html = "hB" -> "s1"
      [] html = "hC" -> "s2"
      [] OTHER       -> None

extract_document_type(html) ==
    IF html = "hC" THEN "ordinance" ELSE "statute"

----------------------------------------------------------------------------
(* The fingerprint computed on a parsed document.  A document is the       *)
(* sequence of its nodes in document order; a node has the name of its tag *)
(* (None for a text node) and the name of its parent.                      *)

StructureWindow == 100   \* list(soup.descendants)[:100]
HierarchyWindow == 200   \* soup.find_all(True)[:200]
HierarchyTop == 20       \* Counter(hierarchy_patterns).most_common(20)
TagHashTop == 10         \* tag_counts.most_common(10)
StructureHashTop == 5    \* structure[:5]
HierarchyHashTop == 10   \* hierarchy_counts[:10]

Element(name, parent) == [name |-> name, parent |-> parent]
TextNode(parent) == [name |-> None, parent |-> parent]

\* seq[:n]
FirstN(seq, n) == SubSeq(seq, 1, IF Len(seq) < n THEN Len(seq) ELSE n)

NamesOf(nodes) == [i \in DOMAIN nodes |-> nodes[i].name]

\* soup.find_all(True): the tags, in document order
Tags(doc) == SelectSeq(doc, LAMBDA n : n.name # None)

IndicesOf(seq, x) == {i \in DOMAIN seq : seq[i] = x}

LeastOf(S) == CHOOSE i \in S : \A j \in S : i <= j

\* Counter(seq): for every item its count and where it first occurs
Counter(seq) ==
    [x \in {seq[i] : i \in DOMAIN seq} |->
        [count |-> Cardinality(IndicesOf(seq, x)),
         first |-> LeastOf(IndicesOf(seq, x))]]

\* the place of item x in counter.most_common()
RankIn(counter, x) ==
    1 + Cardinality({y \in DOMAIN counter :
            \/ counter[y].count > counter[x].count
            \/ /\ counter[y].count = counter[x].count
               /\ counter[y].first < counter[x].first})

\* counter.most_common(n): <<item, count>> by falling count, items of equal
\* count in the order they first occur
MostCommon(counter, n) ==
    LET k == IF Cardinality(DOMAIN counter) < n
             THEN Cardinality(DOMAIN counter) ELSE n
    IN  [r \in 1..k |->
            LET x == CHOOSE x \in DOMAIN counter : RankIn(counter, x) = r
            IN  <<x, counter[x].count>>]

\* [tag.name for tag in soup.find_all() if tag.name]
tag_names(doc) == NamesOf(Tags(doc))

\* structure: the tag names among the first 100 descendants
structure(doc) == NamesOf(Tags(FirstN(doc, StructureWindow)))

\* hierarchy_patterns: "parent > tag" of the first 200 tags
hierarchy_patterns(doc) ==
    LET tags == FirstN(Tags(doc), HierarchyWindow)
    IN  [i \in DOMAIN tags |-> <<tags[i].parent, tags[i].name>>]

\* hash_components, from the counters of the tags and of the hierarchy
\* patterns; json.dumps(..., sort_keys=True) writes the dict tag_counts by
\* key, so its entries are a set here
hash_components(tag_counts, structure_list, hierarchy_counter) ==
    [tag_counts |->
        LET top == MostCommon(tag_counts, TagHashTop)
        IN  {top[i] : i \in DOMAIN top},
     structure_sample |-> FirstN(structure_list, StructureHashTop),
     hierarchy_patterns |->
        FirstN(MostCommon(hierarchy_counter, HierarchyTop), HierarchyHashTop)]

\* signature_hash = hashlib.md5(signature_str.encode()).hexdigest(): the
\* digest stands for the text it is taken of
signature_hash(components) == components

\* documents of three templates: HierarchyWindow tags, then a tail
Templates == {"statute", "table", "list"}

TemplateTag(t, i) ==
    CASE i = 1 -> Element("html", "[document]")
      [] i = 2 -> Element("body", "html")
      [] i > 2 /\ t = "statute" ->
             IF i % 2 = 1 THEN Element("div", "body") ELSE Element("p", "div")
      [] i > 2 /\ t = "table" ->
             IF i = 3 THEN Element("table", "body")
             ELSE IF i % 2 = 0 THEN Element("tr", "table")
                  ELSE Element("td", "tr")
      [] OTHER ->
             IF i = 3 THEN Element("ul", "body") ELSE Element("li", "ul")

Template(t) == [i \in 1..HierarchyWindow |-> TemplateTag(t, i)]

MaxTail == 2

TailNodes == {Element("p", "body"), Element("table", "body"), TextNode("body")}

Tails == UNION {[1..n -> TailNodes] : n \in 0..MaxTail}

SampleDocuments == {Template(t) \o tail : t \in Templates, tail \in Tails}

----------------------------------------------------------------------------
(* Tables *)

\* meta stands for document_date, html_path and metadata_path
NoDocument == [present |-> FALSE, schema_id |-> None, document_type |-> None,
               state_code |-> None, place_id |-> None, meta |-> None,
               is_processed |-> FALSE, processing_error |-> None]

\* rows of table schemas with this schema_id
SchemaRows(sid) == {i \in DOMAIN schemas : schemas[i].schema_id = sid}

\* the primary key of table schemas: an INSERT of a present schema_id fails
SchemaKeyFree(sid) == SchemaRows(sid) = {}

\* session.query(Schema).filter_by(schema_id=schema_id).first()
FirstSchemaRow(sid) ==
    IF SchemaRows(sid) = {} THEN 0
    ELSE CHOOSE i \in SchemaRows(sid) : \A j \in SchemaRows(sid) : i <= j

\* get_schema: the schema exists (the dictionary's content is not used by parse)
get_schema(sid) == FirstSchemaRow(sid) # 0

\* query(ParsingMethodology).filter_by(schema_id=schema_id, is_active=True)
ActiveIds(sid) ==
    {i \in DOMAIN methodologies :
        methodologies[i].schema_id = sid /\ methodologies[i].is_active}

NoActiveFound(sid) == NoId

\* get_parsing_methodology: id of the active row generated last, NoId if none
\* (generated_at grows with the id: a row is built and inserted in one step)
get_parsing_methodology(sid) ==
    IF ActiveIds(sid) = {} THEN NoId
    ELSE CHOOSE i \in ActiveIds(sid) : \A j \in ActiveIds(sid) : j <= i

\* processing times in seconds; a float is held as the exact fraction
\* num / den in lowest terms
Times == {2, 4, 6}

\* processing_time = None
NoTime == -1

\* the time parse measures for its own call
ParseTimes == {2}

RECURSIVE Gcd(_, _)
Gcd(a, b) == IF b = 0 THEN a ELSE Gcd(b, a % b)

Fraction(n, d) ==
    LET g == Gcd(n, d) IN [num |-> n \div g, den |-> d \div g]

\* times: the processing_time of every update applied to the row, in order
\* (history, not a column)
NewMethodology(sid, code) ==
    [schema_id |-> sid, code |-> code, is_active |-> TRUE,
     success_count |-> 0, error_count |-> 0,
     avg_processing_time |-> Fraction(0, 1), times |-> <<>>]

InsertOnly(seen, sid, code) ==
    Append(methodologies, NewMethodology(sid, code))

\* the flush of add_parsing_methodology: the rows read as active are
\* deactivated, the new row is inserted as active
ReplaceAndInsert(seen, sid, code) ==
    Append(SelectSeq(methodologies,
                     LAMBDA m : ~(m.schema_id = sid /\ m.is_active)),
           NewMethodology(sid, code))

DeactivateAndInsert(seen, sid, code) ==
    Append([i \in DOMAIN methodologies |->
                IF i \in seen THEN [methodologies[i] EXCEPT !.is_active = FALSE]
                ELSE methodologies[i]],
           NewMethodology(sid, code))

AverageOverNewCount(old_avg, total_count, processing_time) ==
    IF total_count > 1
    THEN Fraction(old_avg.num * total_count + processing_time * old_avg.den,
                  old_avg.den * total_count)
    ELSE Fraction(processing_time, 1)

\* the weighted average of update_methodology_performance
NewAverage(old_avg, total_count, processing_time) ==
    IF total_count > 1
    THEN Fraction(old_avg.num * (total_count - 1)
                      + processing_time * old_avg.den,
                  old_avg.den * total_count)
    ELSE Fraction(processing_time, 1)

FailureTakesBackSuccess(m, success) ==
    IF success THEN [m EXCEPT !.success_count = @ + 1]
    ELSE [m EXCEPT !.error_count = @ + 1,
                   !.success_count = IF @ > 0 THEN @ - 1 ELSE 0]

\* the counts of update_methodology_performance
Counted(m, success) ==
    IF success THEN [m EXCEPT !.success_count = @ + 1]
    ELSE [m EXCEPT !.error_count = @ + 1]

CountAndRetire(m, success, processing_time) ==
    IF success THEN [m EXCEPT !.success_count = @ + 1]
    ELSE [m EXCEPT !.error_count = @ + 1, !.is_active = FALSE]

\* update_methodology_performance on an existing row
UpdatedStats(m, success, processing_time) ==
    LET c == Counted(m, success)
        total_count == c.success_count + c.error_count
    IN  [c EXCEPT !.times = Append(@, processing_time),
                  !.avg_processing_time =
                      IF processing_time # NoTime
                      THEN NewAverage(@, total_count, processing_time)
                      ELSE @]

----------------------------------------------------------------------------
(* Calls *)

NoRet == [kind |-> "none"]

ParseResultNoId(d, success, data, error, mid) ==
    [kind |-> "ParseResult", document_id |-> d, success |-> success,
     parsed_data |-> data, error |-> error, methodology_id |-> NoId]

ParseResult(d, success, data, error, mid) ==
    [kind |-> "ParseResult", document_id |-> d, success |-> success,
     parsed_data |-> data, error |-> error, methodology_id |-> mid]

IdRet(id) == [kind |-> "id", id |-> id]
BoolRet(b) == [kind |-> "bool", ok |-> b]

NoCall ==
    [op |-> "none", document_id |-> None, html |-> None, schema_id |-> None,
     supplied |-> FALSE, code |-> None, mid |-> NoId,
     rows0 |-> 0, seen_schema |-> {}, seen_count |-> 0, seen |-> {},
     gen_calls |-> 0, fallback_calls |-> 0, update_calls |-> 0,
     fail |-> "none", passed |-> {}, stored |-> {},
     executed |-> FALSE, exec_ok |-> FALSE,
     goc |-> "unset", result |-> NoRet, fallback_result |-> NoRet,
     locals |-> <<>>, updates |-> <<>>]

\* outcome of a database statement: done, SQLAlchemyError (handled by the
\* database function), any other exception (left to the caller)
DbOutcomes == IF faults THEN {"ok", "dberr", "raise"} ELSE {"ok"}

Goto(p, c, label) ==
    /\ pc' = [pc EXCEPT ![p] = label]
    /\ call' = [call EXCEPT ![p] = c]
    /\ UNCHANGED <<ret, faults, history, states, places, batch>>

Return(p, c, r) ==
    /\ pc' = [pc EXCEPT ![p] = "done"]
    /\ call' = [call EXCEPT ![p] = c]
    /\ ret' = [ret EXCEPT ![p] = r]
    /\ UNCHANGED <<faults, history, states, places, batch>>

StateCodes == {"TX"}
PlaceIds == {"austin"}

\* attempted and counted are history: the documents the loop took, and the
\* counter each was added to
NoBatch ==
    [status |-> "none", run |-> None, documents |-> <<>>, i |-> 0,
     stats |-> [processed |-> 0, errors |-> 0],
     attempted |-> <<>>, counted |-> <<>>]

\* the tables with these documents imported, nothing running
StartWith(f, docs) ==
    /\ schemas = <<>>
    /\ methodologies = <<>>
    /\ documents = docs
    /\ states = [s \in StateCodes |-> 0]
    /\ places = [s \in PlaceIds |-> 0]
    /\ batch = NoBatch
    /\ pc = [p \in Procs |-> "idle"]
    /\ call = [p \in Procs |-> NoCall]
    /\ ret = [p \in Procs |-> NoRet]
    /\ calls = 0
    /\ faults = f
    /\ history = <<>>

\* empty tables, nothing running
Start(f) == StartWith(f, [d \in Docs |-> NoDocument])

Init == Start(TRUE)

\* a run in which every database statement succeeds
ReliableInit == Start(FALSE)

----------------------------------------------------------------------------
(* MethodologyExecutor.parse, entry and schema resolution *)

Raised == [kind |-> "raise"]

ParseEscapes(p, c) == Return(p, c, Raised)

\* the except branch of parse
ParseFail(p, c) ==
    Return(p, c, ParseResult(c.document_id, FALSE, NoData, "exc", NoId))

SchemaFailSilent(p, c) ==
    Return(p, [c EXCEPT !.schema_id = None],
           ParseResult(c.document_id, FALSE, NoData, None, NoId))

\* parse gives up when analyze_document returns None
SchemaFail(p, c) ==
    Return(p, [c EXCEPT !.schema_id = None],
           ParseResult(c.document_id, FALSE, NoData,
                       "Could not determine document schema", NoId))

SkipFallback(p, c) ==
    Return(p, c, ParseResult(c.document_id, FALSE, NoData,
                             "No methodology for schema", NoId))

\* parse calls parse_with_gemini_fallback
EnterFallback(p, c) ==
    Goto(p, [c EXCEPT !.fallback_calls = @ + 1], "f_get_document")

\* get_or_generate_methodology returns None
FailResolve(p, c, reason) ==
    EnterFallback(p, [c EXCEPT !.fail = reason])

AnalyseAlways(p, limit, docs, sids) ==
    /\ pc[p] = "idle"
    /\ calls < limit
    /\ calls' = calls + 1
    /\ \E d \in docs, sid \in sids \cup {None} :
          Goto(p, [NoCall EXCEPT !.op = "parse", !.document_id = d,
                                 !.rows0 = Len(methodologies),
                                 !.html = get_document_html(d),
                                 !.schema_id = sid,
                                 !.supplied = (sid # None)],
               IF sid = None THEN "p_get_document" ELSE "a_extract")
    /\ UNCHANGED <<schemas, methodologies, documents>>

\* parse(document_id, html_content, schema_id)
ParseStart(p, limit, docs, sids) ==
    /\ pc[p] = "idle"
    /\ calls < limit
    /\ calls' = calls + 1
    /\ \E d \in docs, sid \in sids \cup {None} :
          Goto(p, [NoCall EXCEPT !.op = "parse", !.document_id = d,
                                 !.rows0 = Len(methodologies),
                                 !.html = get_document_html(d),
                                 !.schema_id = sid,
                                 !.supplied = (sid # None)],
               IF sid = None THEN "p_get_document" ELSE "m_get")
    /\ UNCHANGED <<schemas, methodologies, documents>>

SchemaForgotten(row, o) == None

\* schema_id = document_info.get('schema_id') if document_info else None
KnownSchema(row, o) ==
    IF o = "ok" /\ row.present THEN row.schema_id ELSE None

\* document_info = db_manager.get_document(document_id)
parse_get_document(p) ==
    /\ pc[p] = "p_get_document"
    /\ \E o \in DbOutcomes :
          LET c == call[p]
              sid == KnownSchema(documents[c.document_id], o)
          IN  IF o = "raise" THEN ParseFail(p, c)
              ELSE IF sid # None
                   THEN Goto(p, [c EXCEPT !.schema_id = sid], "m_get")
                   ELSE Goto(p, c, "a_extract")
    /\ UNCHANGED <<schemas, methodologies, documents, calls>>

\* get_or_create_schema: analyzer.extract_schema_signature(html_content)
get_or_create_schema_extract(p) ==
    /\ pc[p] = "a_extract"
    /\ LET c == call[p]
           sid == extract_schema_signature(c.html)
       IN  IF sid = None THEN SchemaFail(p, c)
           ELSE Goto(p, [c EXCEPT !.schema_id = sid], "a_get_schema")
    /\ UNCHANGED <<schemas, methodologies, documents, calls>>

\* get_or_create_schema: existing_schema = db_manager.get_schema(schema_id)
get_or_create_schema_get(p) ==
    /\ pc[p] = "a_get_schema"
    /\ \E o \in DbOutcomes :
          IF o = "raise" THEN SchemaFail(p, call[p])
          ELSE Goto(p, call[p], "a_add_schema_q")
    /\ UNCHANGED <<schemas, methodologies, documents, calls>>

ReturnIfAdded(c, added) ==
    [c EXCEPT !.goc = IF added THEN c.schema_id ELSE None]

\* get_or_create_schema hands the schema id it computed back to
\* analyze_document, whatever add_schema returned
get_or_create_schema_return(c, added) == [c EXCEPT !.goc = c.schema_id]

\* add_schema: the query
add_schema_query(p) ==
    /\ pc[p] = "a_add_schema_q"
    /\ \E o \in DbOutcomes :
          LET c == call[p]
              i == FirstSchemaRow(c.schema_id)
          IN  CASE o = "ok" ->
                     Goto(p, [c EXCEPT !.seen_schema = IF i = 0 THEN {} ELSE {i},
                                       !.seen_count =
                                           IF i = 0 THEN 0
                                           ELSE schemas[i].document_count],
                          "a_add_schema_c")
                [] o = "dberr" ->
                     Goto(p, get_or_create_schema_return(c, FALSE),
                          "a_add_doctype")
                [] OTHER -> SchemaFail(p, c)
    /\ UNCHANGED <<schemas, methodologies, documents, calls>>

\* add_schema: insert or increment, then commit
add_schema_commit(p) ==
    /\ pc[p] = "a_add_schema_c"
    /\ \E o \in DbOutcomes :
          LET c == call[p]
              added == o = "ok" /\ (c.seen_schema # {} \/ SchemaKeyFree(c.schema_id))
          IN
          /\ IF o = "ok"
             THEN IF c.seen_schema = {}
                  THEN IF SchemaKeyFree(c.schema_id)
                       THEN schemas' = Append(schemas,
                                [schema_id |-> c.schema_id, document_count |-> 1,
                                 document_types |-> {}])
                       ELSE UNCHANGED schemas
                  ELSE schemas' =
                         [schemas EXCEPT
                            ![CHOOSE i \in c.seen_schema : TRUE].document_count =
                                c.seen_count + 1]
             ELSE UNCHANGED schemas
          /\ IF o = "raise" THEN SchemaFail(p, c)
             ELSE Goto(p, get_or_create_schema_return(c, added),
                       "a_add_doctype")
    /\ UNCHANGED <<methodologies, documents, calls>>

\* analyze_document: extract_document_type, add_document_type_to_schema
analyze_document_type(p) ==
    /\ pc[p] = "a_add_doctype"
    /\ \E o \in DbOutcomes :
          LET c == call[p]
              i == FirstSchemaRow(c.schema_id)
          IN
          /\ IF o = "ok" /\ i # 0 /\ c.goc # None
             THEN schemas' = [schemas EXCEPT ![i].document_types =
                                 @ \cup {extract_document_type(c.html)}]
             ELSE UNCHANGED schemas
          /\ IF o = "raise" \/ c.goc = None THEN SchemaFail(p, c)
             ELSE Goto(p, c, "a_add_document")
    /\ UNCHANGED <<methodologies, documents, calls>>

\* add_document on the row of the document: an existing row is updated in
\* the columns given, a new one starts unprocessed
add_document(row, state_code, place_id, document_type, meta, schema_id) ==
    [row EXCEPT !.present = TRUE, !.state_code = state_code,
                !.place_id = place_id, !.document_type = document_type,
                !.meta = meta, !.schema_id = schema_id]

\* analyze_document: db_manager.add_document(..., schema_id=schema_id)
analyze_document_add(p) ==
    /\ pc[p] = "a_add_document"
    /\ \E o \in DbOutcomes :
          LET c == call[p] IN
          /\ IF o = "ok"
             THEN documents' =
                    [documents EXCEPT ![c.document_id] =
                        add_document(@, None, None,
                                     extract_document_type(c.html), None,
                                     c.schema_id)]
             ELSE UNCHANGED documents
          /\ IF o = "raise" THEN SchemaFail(p, c)
             ELSE Goto(p, c, "m_get")
    /\ UNCHANGED <<schemas, methodologies, calls>>

----------------------------------------------------------------------------
(* get_or_generate_methodology *)

\* methodology_dict = db_manager.get_parsing_methodology(schema_id)
get_or_generate_methodology_get(p) ==
    /\ pc[p] = "m_get"
    /\ \E o \in DbOutcomes :
          LET c == call[p]
              id == IF o = "ok" THEN get_parsing_methodology(c.schema_id)
                    ELSE NoId
          IN  CASE o = "raise" -> FailResolve(p, c, "exception")
                [] o # "raise" /\ id # NoId ->
                     Goto(p, [c EXCEPT !.mid = id,
                                       !.code = methodologies[id].code],
                          "x_execute")
                [] OTHER -> Goto(p, c, "m_get_schema")
    /\ UNCHANGED <<schemas, methodologies, documents, calls>>

\* schema_details = db_manager.get_schema(schema_id)
get_or_generate_methodology_schema(p) ==
    /\ pc[p] = "m_get_schema"
    /\ \E o \in DbOutcomes :
          LET c == call[p] IN
          CASE o = "raise" -> FailResolve(p, c, "exception")
            [] o = "ok" /\ get_schema(c.schema_id) -> Goto(p, c, "m_generate")
            [] OTHER -> FailResolve(p, c, "schema_missing")
    /\ UNCHANGED <<schemas, methodologies, documents, calls>>

\* gemini.generate_parsing_methodology: the request goes out
generate_parsing_methodology_call(p) ==
    /\ pc[p] = "m_generate"
    /\ Goto(p, [call[p] EXCEPT !.gen_calls = @ + 1], "m_gen_wait")
    /\ UNCHANGED <<schemas, methodologies, documents, calls>>

\* gemini.generate_parsing_methodology: the answer, one of these candidates
\* or None
generate_parsing_methodology_answer(p, candidates) ==
    /\ pc[p] = "m_gen_wait"
    /\ \E code \in candidates \cup {None} :
          IF code = None THEN FailResolve(p, call[p], "gen_none")
          ELSE Goto(p, [call[p] EXCEPT !.code = code], "m_test")
    /\ UNCHANGED <<schemas, methodologies, documents, calls>>

generate_parsing_methodology_return(p) ==
    generate_parsing_methodology_answer(p, Candidates)

AcceptUntested(t) == TRUE

\* if not success: return None
CandidateAccepted(t) == t.success

\* success, _, error = gemini.test_parsing_methodology(code, sample_html)
get_or_generate_methodology_test(p) ==
    /\ pc[p] = "m_test"
    /\ LET c == call[p]
           t == test_parsing_methodology(c.code, c.html)
       IN  IF Run(c.code, c.html) = "hang" THEN Goto(p, c, "hung")
           ELSE IF CandidateAccepted(t)
                THEN Goto(p, [c EXCEPT !.passed =
                                 IF t.success THEN @ \cup {c.code} ELSE @],
                          "m_add_q")
                ELSE FailResolve(p, c, "validation")
    /\ UNCHANGED <<schemas, methodologies, documents, calls>>

----------------------------------------------------------------------------
(* add_parsing_methodology, called by get_or_generate_methodology or directly *)

AddFailed(p, c, o) ==
    IF c.op = "add"
    THEN Return(p, c, IF o = "raise" THEN Raised ELSE IdRet(NoId))
    ELSE FailResolve(p, c, IF o = "raise" THEN "exception" ELSE "save_failed")

AddStart(p, limit, sids) ==
    /\ pc[p] = "idle"
    /\ calls < limit
    /\ calls' = calls + 1
    /\ \E sid \in sids, code \in AddCodes :
          Goto(p, [NoCall EXCEPT !.op = "add", !.schema_id = sid,
                                 !.rows0 = Len(methodologies),
                                 !.code = code], "m_add_q")
    /\ UNCHANGED <<schemas, methodologies, documents>>

\* existing_methods = session.query(...).filter_by(is_active=True).all()
add_parsing_methodology_query(p) ==
    /\ pc[p] = "m_add_q"
    /\ \E o \in DbOutcomes :
          LET c == call[p] IN
          IF o = "ok"
          THEN Goto(p, [c EXCEPT !.seen = ActiveIds(c.schema_id)], "m_add_c")
          ELSE AddFailed(p, c, o)
    /\ UNCHANGED <<schemas, methodologies, documents, calls>>

\* deactivate the rows read, session.add(methodology), session.commit(),
\* then return methodology.id: the commit has expired the object, so reading
\* the id is a SELECT in a new transaction, inside the same try
add_parsing_methodology_commit(p) ==
    /\ pc[p] = "m_add_c"
    /\ \E o \in DbOutcomes, reload \in DbOutcomes :
          LET c == call[p]
              id == Len(methodologies) + 1
              c2 == [c EXCEPT !.mid = id, !.stored = @ \cup {id}]
          IN
          IF o = "ok"
          THEN /\ methodologies' = DeactivateAndInsert(c.seen, c.schema_id, c.code)
               /\ IF reload = "ok"
                  THEN IF c.op = "add" THEN Return(p, c2, IdRet(id))
                       ELSE Goto(p, c2, "x_execute")
                  ELSE AddFailed(p, [c2 EXCEPT !.mid = NoId], reload)
          ELSE /\ UNCHANGED methodologies
               /\ AddFailed(p, c, o)
    /\ UNCHANGED <<schemas, documents, calls>>

----------------------------------------------------------------------------
(* execute_methodology and the performance update *)

\* result = self.execute_methodology(methodology, html_content, document_id)
execute_methodology(p) ==
    /\ pc[p] = "x_execute"
    /\ LET c == call[p]
           t == test_parsing_methodology(c.code, c.html)
           r == IF t.success
                THEN ParseResult(c.document_id, TRUE,
                                 SetDocumentId(t.result, c.document_id),
                                 None, c.mid)
                ELSE ParseResult(c.document_id, FALSE, NoData, t.error, c.mid)
       IN  IF Run(c.code, c.html) = "hang" THEN Goto(p, c, "hung")
           ELSE Goto(p, [c EXCEPT !.executed = TRUE, !.exec_ok = t.success,
                                  !.result = r], "x_update")
    /\ UNCHANGED <<schemas, methodologies, documents, calls>>

UpdateOnlySuccess(mid, success, processing_time, o) ==
    IF o = "ok" /\ mid \in DOMAIN methodologies /\ success
    THEN methodologies' =
            [methodologies EXCEPT
                ![mid] = UpdatedStats(@, success, processing_time)]
    ELSE UNCHANGED methodologies

\* the body of update_methodology_performance
update_methodology_performance(mid, success, processing_time, o) ==
    IF o = "ok" /\ mid \in DOMAIN methodologies
    THEN methodologies' =
            [methodologies EXCEPT
                ![mid] = UpdatedStats(@, success, processing_time)]
    ELSE UNCHANGED methodologies

\* parse: db_manager.update_methodology_performance(...); return result
parse_update_performance(p) ==
    /\ pc[p] = "x_update"
    /\ \E o \in DbOutcomes, processing_time \in ParseTimes :
          LET c == [call[p] EXCEPT
                       !.update_calls = @ + 1,
                       !.updates = Append(@,
                           [methodology_id |-> call[p].mid,
                            success |-> call[p].result.success,
                            applied |-> o = "ok"
                                /\ call[p].mid \in DOMAIN methodologies])]
          IN
          /\ update_methodology_performance(c.mid, c.result.success,
                                            processing_time, o)
          /\ IF o = "raise" THEN ParseFail(p, c)
             ELSE Return(p, c, c.result)
    /\ UNCHANGED <<schemas, documents, calls>>

\* update_methodology_performance called on its own
UpdateCall(p, limit, times) ==
    /\ pc[p] = "idle"
    /\ calls < limit
    /\ calls' = calls + 1
    /\ \E mid \in 1..(Len(methodologies) + 1), success \in BOOLEAN,
          processing_time \in times, o \in DbOutcomes :
          /\ update_methodology_performance(mid, success, processing_time, o)
          /\ Return(p, [NoCall EXCEPT !.op = "update", !.mid = mid,
                                      !.update_calls = 1],
                    IF o = "raise" THEN Raised
                    ELSE BoolRet(o = "ok" /\ mid \in DOMAIN methodologies))
    /\ UNCHANGED <<schemas, documents>>

----------------------------------------------------------------------------
(* parse_with_gemini_fallback *)

FallbackReturn(p, c, r) ==
    Return(p, [c EXCEPT !.fallback_result = r], r)

\* document_info = db_manager.get_document(document_id) or {...}
fallback_get_document(p) ==
    /\ pc[p] = "f_get_document"
    /\ \E o \in DbOutcomes :
          LET c == call[p] IN
          IF o = "raise"
          THEN FallbackReturn(p, c, ParseResult(c.document_id, FALSE, NoData,
                                                "exc", NoId))
          ELSE Goto(p, c, "f_gemini")
    /\ UNCHANGED <<schemas, methodologies, documents, calls>>

\* what gemini.parse_document_with_gemini can return: None, or the decoded
\* JSON text of the answer
FallbackAnswers == {NoData, DictFull, DictPartial, DictEmpty, ListData,
                    ListEmpty}

\* parsed_data = gemini.parse_document_with_gemini(...) and the rest
fallback_parse_answer(p, answers) ==
    /\ pc[p] = "f_gemini"
    /\ \E data \in answers :
          LET c == call[p] IN
          IF ~Truthy(data)
          THEN FallbackReturn(p, c,
                   ParseResult(c.document_id, FALSE, NoData,
                               "Gemini parsing failed to return valid data",
                               NoId))
          ELSE FallbackReturn(p, c,
                   ParseResult(c.document_id, TRUE,
                               SetDocumentId(data, c.document_id), None, NoId))
    /\ UNCHANGED <<schemas, methodologies, documents, calls>>

fallback_parse(p) == fallback_parse_answer(p, FallbackAnswers)

----------------------------------------------------------------------------
(* gemini.generate_parsing_methodology called on its own.  A response is    *)
(* the sequence of its parts: prose, a block fenced with ```python, a block *)
(* fenced with ``` alone; entry tells whether the part holds the text       *)
(* 'def parse_html('.                                                       *)

MaxParts == 2

PartKinds == {"prose", "python_block", "block"}

Parts == [kind : PartKinds, entry : BOOLEAN]

Responses == UNION {[1..n -> Parts] : n \in 0..MaxParts}

\* the places of the parts of these kinds
PartsOf(response, kinds) ==
    {i \in DOMAIN response : response[i].kind \in kinds}

\* re.search(pattern, response_text, re.DOTALL): the leftmost match
Search(response, kinds) ==
    IF PartsOf(response, kinds) = {} THEN 0
    ELSE LeastOf(PartsOf(response, kinds))

\* the candidate cut out of the response: the first ```python block, else
\* the first fenced block, else the whole text
ExtractCode(response) ==
    CASE Search(response, {"python_block"}) # 0 ->
             [from |-> "block", part |-> Search(response, {"python_block"}),
              entry |-> response[Search(response, {"python_block"})].entry]
      [] Search(response, {"python_block"}) = 0
         /\ Search(response, {"python_block", "block"}) # 0 ->
             [from |-> "block",
              part |-> Search(response, {"python_block", "block"}),
              entry |-> response[Search(response,
                                        {"python_block", "block"})].entry]
      [] OTHER ->
             [from |-> "text", part |-> 0,
              entry |-> \E i \in DOMAIN response : response[i].entry]

AnyCandidate(code) == TRUE

\* 'def parse_html(' in code
HasEntryPoint(code) == code.entry

\* return None
NoCode == [from |-> "none", part |-> 0, entry |-> FALSE]

CodeRet(code) == [kind |-> "code", code |-> code]

GenerateStart(p) ==
    /\ pc[p] = "idle"
    /\ \E api_key \in BOOLEAN, model \in BOOLEAN, answers \in BOOLEAN,
          response \in Responses :
          Goto(p, [NoCall EXCEPT !.op = "generate",
                                 !.locals = [api_key |-> api_key,
                                             model |-> model,
                                             answers |-> answers,
                                             response |-> response]],
               "g_key")
    /\ UNCHANGED <<schemas, methodologies, documents, calls>>

\* if not API_KEY: return None; model = initialize_model(model_name)
generate_parsing_methodology_model(p) ==
    /\ pc[p] = "g_key"
    /\ LET c == call[p] IN
       IF ~c.locals.api_key \/ ~c.locals.model
       THEN Return(p, c, CodeRet(NoCode))
       ELSE Goto(p, c, "g_call")
    /\ UNCHANGED <<schemas, methodologies, documents, calls>>

\* response = model.generate_content(prompt)
generate_parsing_methodology_request(p) ==
    /\ pc[p] = "g_call"
    /\ LET c == [call[p] EXCEPT !.gen_calls = @ + 1] IN
       IF c.locals.answers THEN Goto(p, c, "g_extract")
       ELSE Return(p, c, CodeRet(NoCode))
    /\ UNCHANGED <<schemas, methodologies, documents, calls>>

\* the code block, the check of the entry point, return code
generate_parsing_methodology_extract(p) ==
    /\ pc[p] = "g_extract"
    /\ LET c == call[p]
           code == ExtractCode(c.locals.response)
       IN  IF HasEntryPoint(code) THEN Return(p, c, CodeRet(code))
           ELSE Return(p, c, CodeRet(NoCode))
    /\ UNCHANGED <<schemas, methodologies, documents, calls>>

----------------------------------------------------------------------------
(* gemini.test_parsing_methodology called on its own *)

Htmls == {"hA", "hB", "hC", "hBad"}

TestRet(t) == [kind |-> "test", success |-> t.success, result |-> t.result,
               error |-> t.error]

TestStart(p) ==
    /\ pc[p] = "idle"
    /\ \E code \in Codes, html \in Htmls :
          Goto(p, [NoCall EXCEPT !.op = "test", !.code = code, !.html = html],
               "t_run")
    /\ UNCHANGED <<schemas, methodologies, documents, calls>>

\* exec(code), parse_html(html_content), the checks on the result
test_parsing_methodology_run(p) ==
    /\ pc[p] = "t_run"
    /\ LET c == call[p] IN
       IF Run(c.code, c.html) = "hang" THEN Goto(p, c, "hung")
       ELSE Return(p, c, TestRet(test_parsing_methodology(c.code, c.html)))
    /\ UNCHANGED <<schemas, methodologies, documents, calls>>

----------------------------------------------------------------------------
(* analyzer.extract_schema_signature called on its own *)

SignatureRet(id) == [kind |-> "signature", id |-> id]

ExtractStart(p) ==
    /\ pc[p] = "idle"
    /\ \E doc \in SampleDocuments :
          Goto(p, [NoCall EXCEPT !.op = "extract", !.html = doc], "e_soup")
    /\ UNCHANGED <<schemas, methodologies, documents, calls>>

\* soup = BeautifulSoup(...), and the lists taken from it
extract_schema_signature_lists(p) ==
    /\ pc[p] = "e_soup"
    /\ Goto(p, [call[p] EXCEPT !.locals =
                    [tag_names |-> tag_names(call[p].html),
                     structure |-> structure(call[p].html),
                     hierarchy_patterns |-> hierarchy_patterns(call[p].html)]],
            "e_count")
    /\ UNCHANGED <<schemas, methodologies, documents, calls>>

\* tag_counts = Counter(...), Counter(hierarchy_patterns)
extract_schema_signature_count(p) ==
    /\ pc[p] = "e_count"
    /\ LET l == call[p].locals IN
       Goto(p, [call[p] EXCEPT !.locals =
                    [tag_names |-> l.tag_names,
                     tag_counts |-> Counter(l.tag_names),
                     structure |-> l.structure,
                     hierarchy_counter |-> Counter(l.hierarchy_patterns)]],
            "e_hash")
    /\ UNCHANGED <<schemas, methodologies, documents, calls>>

\* hash_components, signature_hash, return
extract_schema_signature_hash(p) ==
    /\ pc[p] = "e_hash"
    /\ LET l == call[p].locals IN
       Return(p, call[p],
              SignatureRet(signature_hash(
                  hash_components(l.tag_counts, l.structure,
                                  l.hierarchy_counter))))
    /\ UNCHANGED <<schemas, methodologies, documents, calls>>

----------------------------------------------------------------------------
(* processing/workflow.py: process_batch.  The loop body calls parse, whose *)
(* steps are the ones above.                                                *)

MaxBatch == 2       \* limit: documents fetched by one batch

\* a document as imported by the data loader
Imported(d) ==
    [NoDocument EXCEPT !.present = TRUE, !.state_code = "TX",
                       !.place_id = "austin", !.document_type = "statute",
                       !.meta = "imported"]

ImportedDocs == {"dA", "dB", "dBad"}

\* the dictionary get_unprocessed_documents makes of a row
DocumentDict(d) ==
    [document_id |-> d,
     state_code |-> documents[d].state_code,
     place_id |-> documents[d].place_id,
     document_type |-> documents[d].document_type,
     schema_id |-> documents[d].schema_id]

\* get_unprocessed_documents: limit rows with is_processed = False (all of
\* them when there are fewer), in the order the database yields them: the
\* query has no ORDER BY, so every order is possible
get_unprocessed_documents(limit) ==
    LET rows == {d \in Docs : documents[d].present
                              /\ ~documents[d].is_processed}
        k == IF Cardinality(rows) < limit THEN Cardinality(rows) ELSE limit
    IN  {[i \in 1..k |-> DocumentDict(order[i])] :
            order \in {f \in [1..k -> rows] :
                          \A i, j \in 1..k : f[i] = f[j] => i = j}}

\* the row of mark_document_processed
MarkedRow(row, error) ==
    [row EXCEPT !.is_processed = TRUE, !.processing_error = error]

\* mark_document_processed: the row, and the processed counts of its state
\* and place when there is no error
mark_document_processed(d, error, o) ==
    LET row == documents[d]
        applied == o = "ok" /\ row.present
    IN  /\ documents' = IF applied
                        THEN [documents EXCEPT ![d] = MarkedRow(@, error)]
                        ELSE documents
        /\ states' = IF applied /\ error = None
                        /\ row.state_code \in DOMAIN states
                     THEN [states EXCEPT ![row.state_code] = @ + 1]
                     ELSE states
        /\ places' = IF applied /\ error = None
                        /\ row.place_id \in DOMAIN places
                     THEN [places EXCEPT ![row.place_id] = @ + 1]
                     ELSE places

BatchGoto(p, b, label) ==
    /\ pc' = [pc EXCEPT ![p] = label]
    /\ batch' = b
    /\ call' = [call EXCEPT ![p] = NoCall]
    /\ ret' = [ret EXCEPT ![p] = NoRet]
    /\ UNCHANGED <<schemas, methodologies, calls, faults, history>>

\* return stats
BatchReturn(p, b) == BatchGoto(p, [b EXCEPT !.status = "returned"], "b_done")

\* an exception leaves process_batch
BatchRaise(p, b) == BatchGoto(p, [b EXCEPT !.status = "raised"], "b_done")

\* run_id = db_manager.start_processing_run(...)
process_batch_start(p) ==
    /\ pc[p] = "idle"
    /\ batch.status = "none"
    /\ \E o \in DbOutcomes :
          CASE o = "ok" ->
                 BatchGoto(p, [batch EXCEPT !.status = "running",
                                            !.run = [status |-> "running",
                                                     documents_processed |-> 0,
                                                     errors_count |-> 0]],
                           "b_get")
            [] o = "dberr" -> BatchReturn(p, batch)
            [] OTHER -> BatchRaise(p, batch)
    /\ UNCHANGED <<documents, states, places>>

\* documents = db_manager.get_unprocessed_documents(...)
process_batch_get(p) ==
    /\ pc[p] = "b_get"
    /\ \E o \in DbOutcomes, limit \in 1..MaxBatch :
          CASE o = "ok" ->
                 \E found \in get_unprocessed_documents(limit) :
                    BatchGoto(p, [batch EXCEPT !.documents = found],
                              IF found = <<>> THEN "b_end" ELSE "b_loop")
            [] o = "dberr" -> BatchGoto(p, batch, "b_end")
            [] OTHER -> BatchGoto(p, batch, "b_except")
    /\ UNCHANGED <<documents, states, places>>

ErrorUncounted(b) == b

\* stats["errors"] += 1
CountError(b) ==
    [b EXCEPT !.stats.errors = @ + 1, !.counted = Append(@, "errors")]

\* stats["processed"] += 1
CountProcessed(b) ==
    [b EXCEPT !.stats.processed = @ + 1, !.counted = Append(@, "processed")]

\* for doc in documents: get_document_html, then executor.parse
process_batch_next(p) ==
    /\ pc[p] = "b_loop"
    /\ IF batch.i = Len(batch.documents)
       THEN BatchGoto(p, batch, "b_end")
       ELSE LET doc == batch.documents[batch.i + 1]
                b == [batch EXCEPT !.i = @ + 1,
                                   !.attempted = Append(@, doc.document_id)]
            IN  \E html \in {get_document_html(doc.document_id), None} :
                   IF html = None
                   THEN BatchGoto(p, CountError(b), "b_loop")
                   ELSE /\ pc' = [pc EXCEPT ![p] =
                                     IF doc.schema_id = None
                                     THEN "p_get_document" ELSE "m_get"]
                        /\ call' = [call EXCEPT ![p] =
                               [NoCall EXCEPT
                                   !.op = "parse",
                                   !.document_id = doc.document_id,
                                   !.rows0 = Len(methodologies),
                                   !.html = html,
                                   !.schema_id = doc.schema_id,
                                   !.supplied = (doc.schema_id # None)]]
                        /\ batch' = b
                        /\ UNCHANGED <<schemas, methodologies, calls, faults,
                                       history, ret>>
    /\ UNCHANGED <<documents, states, places>>

\* the branch on parse_result, with the output file and
\* mark_document_processed
process_batch_result(p) ==
    /\ pc[p] = "done"
    /\ batch.status = "running"
    /\ LET parse_result == ret[p]
           d == call[p].document_id
       IN  \E o \in DbOutcomes, written \in {TRUE, ~faults} :
              IF parse_result.success /\ Truthy(parse_result.parsed_data)
              THEN IF ~written \/ o = "raise"
                   THEN /\ BatchGoto(p, CountError(batch), "b_loop")
                        /\ UNCHANGED <<documents, states, places>>
                   ELSE /\ mark_document_processed(d, None, o)
                        /\ BatchGoto(p, CountProcessed(batch), "b_loop")
              ELSE /\ mark_document_processed(d, parse_result.error, o)
                   /\ BatchGoto(p, CountError(batch), "b_loop")

\* end_processing_run on the run of the batch
end_processing_run(b, status, documents_processed, errors_count, o) ==
    IF o = "ok"
    THEN [b EXCEPT !.run = [status |-> status,
                            documents_processed |-> documents_processed,
                            errors_count |-> errors_count]]
    ELSE b

\* after the loop, or when there is nothing to process
process_batch_end(p) ==
    /\ pc[p] = "b_end"
    /\ \E o \in DbOutcomes :
          IF o = "raise" THEN BatchGoto(p, batch, "b_except")
          ELSE BatchReturn(p, end_processing_run(batch, "completed",
                                  batch.stats.processed, batch.stats.errors, o))
    /\ UNCHANGED <<documents, states, places>>

\* except Exception around the batch
process_batch_except(p) ==
    /\ pc[p] = "b_except"
    /\ \E o \in DbOutcomes :
          IF o = "raise" THEN BatchRaise(p, batch)
          ELSE BatchReturn(p, end_processing_run(batch, "error",
                                  batch.stats.processed,
                                  batch.stats.errors + 1, o))
    /\ UNCHANGED <<documents, states, places>>

----------------------------------------------------------------------------
(* The caller takes the returned value; the call's locals are gone *)

TakeResult(p) ==
    /\ pc[p] = "done"
    /\ pc' = [pc EXCEPT ![p] = "idle"]
    /\ call' = [call EXCEPT ![p] = NoCall]
    /\ ret' = [ret EXCEPT ![p] = NoRet]
    /\ UNCHANGED <<schemas, methodologies, documents, calls, faults, history,
                   states, places, batch>>

\* the same, the caller keeping what the call did and returned
TakeAndLog(p) ==
    /\ pc[p] = "done"
    /\ pc' = [pc EXCEPT ![p] = "idle"]
    /\ call' = [call EXCEPT ![p] = NoCall]
    /\ ret' = [ret EXCEPT ![p] = NoRet]
    /\ history' = Append(history, [call |-> call[p], ret |-> ret[p]])
    /\ UNCHANGED <<schemas, methodologies, documents, calls, faults,
                   states, places, batch>>

----------------------------------------------------------------------------
(* Specifications *)

\* the steps inside a running call that ask the generation service nothing
LocalSteps(p) ==
    \/ parse_get_document(p)
    \/ get_or_create_schema_extract(p)
    \/ get_or_create_schema_get(p)
    \/ add_schema_query(p)
    \/ add_schema_commit(p)
    \/ analyze_document_type(p)
    \/ analyze_document_add(p)
    \/ get_or_generate_methodology_get(p)
    \/ get_or_generate_methodology_schema(p)
    \/ generate_parsing_methodology_call(p)
    \/ get_or_generate_methodology_test(p)
    \/ add_parsing_methodology_query(p)
    \/ add_parsing_methodology_commit(p)
    \/ execute_methodology(p)
    \/ parse_update_performance(p)
    \/ fallback_get_document(p)

\* the steps inside a running call
Steps(p) ==
    \/ LocalSteps(p)
    \/ generate_parsing_methodology_return(p)
    \/ fallback_parse(p)

Inside(p) == Steps(p) \/ TakeResult(p)

\* one call at a time
Next ==
    \E p \in SeqProcs :
        \/ ParseStart(p, MaxCalls, Docs, SchemaIds)
        \/ AddStart(p, MaxCalls, SchemaIds)
        \/ UpdateCall(p, MaxCalls, ParseTimes \cup {NoTime})
        \/ Inside(p)

Spec == Init /\ [][Next]_vars

\* the calls of two processes interleave, on the documents of one schema;
\* the generation service answers with a candidate that passes, one that
\* fails later, one that is rejected, or nothing, and the fallback with a
\* full result or nothing
ConcDocs == {"dA", "dB"}
ConcSchemaIds == {"s1"}
ConcCandidates == {"cGood", "cFlaky", "cRaise"}
ConcAnswers == {NoData, DictFull}

ConcNext ==
    \E p \in Procs :
        \/ ParseStart(p, MaxConcCalls, ConcDocs, {})
        \/ AddStart(p, MaxConcCalls, ConcSchemaIds)
        \/ LocalSteps(p)
        \/ generate_parsing_methodology_answer(p, ConcCandidates)
        \/ fallback_parse_answer(p, ConcAnswers)
        \/ TakeResult(p)

ConcSpec == Init /\ [][ConcNext]_vars

\* documents parsed one after the other on a database that works, the
\* caller keeping every result
MaxRunCalls == 2

ReliableNext ==
    \E p \in SeqProcs :
        \/ ParseStart(p, MaxRunCalls, Docs, {})
        \/ Steps(p)
        \/ TakeAndLog(p)

ReliableSpec == ReliableInit /\ [][ReliableNext]_vars

\* the same run, the caller's thread never starved: a step that can be
\* taken is taken in the end
FairRunSpec == ReliableSpec /\ WF_vars(ReliableNext)

\* documents of one schema parsed one after the other on a database whose
\* statements can fail, the caller keeping every result
FaultyRunNext ==
    \E p \in SeqProcs :
        \/ ParseStart(p, MaxRunCalls, ConcDocs, {})
        \/ Steps(p)
        \/ TakeAndLog(p)

FaultyRunSpec == Init /\ [][FaultyRunNext]_vars

\* a methodology is stored, then its performance is updated call after call
MaxStatCalls == 4

StatsNext ==
    \E p \in SeqProcs :
        \/ AddStart(p, 1, ConcSchemaIds)
        \/ add_parsing_methodology_query(p)
        \/ add_parsing_methodology_commit(p)
        \/ UpdateCall(p, MaxStatCalls, Times \cup {NoTime})
        \/ TakeResult(p)

StatsSpec == Init /\ [][StatsNext]_vars

\* the documents are imported, then one batch runs
BatchInit ==
    StartWith(TRUE, [d \in Docs |->
                        IF d \in ImportedDocs THEN Imported(d) ELSE NoDocument])

BatchNext ==
    \E p \in SeqProcs :
        \/ process_batch_start(p)
        \/ process_batch_get(p)
        \/ process_batch_next(p)
        \/ Steps(p)
        \/ process_batch_result(p)
        \/ process_batch_end(p)
        \/ process_batch_except(p)

BatchSpec == BatchInit /\ [][BatchNext]_vars

\* the generation service is asked for candidates
GenerateNext ==
    \E p \in SeqProcs :
        \/ GenerateStart(p)
        \/ generate_parsing_methodology_model(p)
        \/ generate_parsing_methodology_request(p)
        \/ generate_parsing_methodology_extract(p)

GenerateSpec == Init /\ [][GenerateNext]_vars

\* routines are tried on documents
ValidationNext ==
    \E p \in Procs :
        \/ TestStart(p)
        \/ test_parsing_methodology_run(p)

ValidationSpec == Init /\ [][ValidationNext]_vars

\* two documents are fingerprinted
FingerprintNext ==
    \E p \in Procs :
        \/ ExtractStart(p)
        \/ extract_schema_signature_lists(p)
        \/ extract_schema_signature_count(p)
        \/ extract_schema_signature_hash(p)

FingerprintSpec == Init /\ [][FingerprintNext]_vars

----------------------------------------------------------------------------
(* Properties *)

ParseReturned(p) == pc[p] = "done" /\ call[p].op = "parse"

RowsOf(sid) == {i \in DOMAIN methodologies : methodologies[i].schema_id = sid}

\* C1: parse hands back a ParseResult for the requested document whatever
\* fails on the way (database lookup, schema analysis, generation, routine
\* execution, performance update, fallback): no exception leaves parse.
ParseAlwaysReturnsResult ==
    \A p \in Procs :
        ParseReturned(p) =>
            /\ ret[p].kind = "ParseResult"
            /\ ret[p].document_id = call[p].document_id

\* a parse whose performance update raised after the routine had run
C1Witness ==
    \E p \in Procs :
        /\ ParseReturned(p)
        /\ call[p].executed
        /\ call[p].update_calls = 1
        /\ ret[p].error = "exc"

\* C2: in a sequential run of add_parsing_methodology,
\* update_methodology_performance and parse calls, a schema never has more
\* than one methodology row with is_active = true.
AtMostOneActive ==
    \A sid \in SchemaIds : Cardinality(ActiveIds(sid)) <= 1

\* a schema with an older, deactivated row and an active one
C2Witness ==
    \E sid \in SchemaIds :
        /\ Cardinality(RowsOf(sid)) >= 2
        /\ Cardinality(ActiveIds(sid)) = 1

\* C3: when the resolved methodology fails on the document, parse calls the
\* generic fallback before it returns and returns the fallback's result.
ExecutionFailureFallsBack ==
    \A p \in Procs :
        (ParseReturned(p) /\ call[p].executed /\ ~call[p].exec_ok) =>
            /\ call[p].fallback_calls >= 1
            /\ ret[p] = call[p].fallback_result

ResolveFailures == {"schema_missing", "gen_none", "validation", "save_failed"}

\* C4: when no methodology can be resolved (schema row missing, generator
\* answers None, candidate fails validation, store fails to save), parse
\* calls the fallback exactly once, asks for a methodology at most once,
\* leaves the methodology table as it was and returns the fallback's result.
ResolveFailureFallsBackOnce ==
    \A p \in Procs :
        (ParseReturned(p) /\ call[p].fail \in ResolveFailures) =>
            /\ call[p].fallback_calls = 1
            /\ call[p].gen_calls <= 1
            /\ call[p].stored = {}
            /\ Len(methodologies) = call[p].rows0
            /\ ret[p].kind = "ParseResult"
            /\ ret[p] = call[p].fallback_result

\* a parse whose candidate failed validation and whose fallback succeeded
C4Witness ==
    \E p \in Procs :
        /\ ParseReturned(p)
        /\ call[p].fail = "validation"
        /\ call[p].gen_calls = 1
        /\ ret[p].success

\* C5: every row parse stores holds a candidate that passed
\* test_parsing_methodology on the call's HTML in that same call.
StoredCandidatePassedTest ==
    \A p \in Procs :
        call[p].op = "parse" =>
            \A i \in call[p].stored :
                /\ i \in DOMAIN methodologies
                /\ methodologies[i].code \in call[p].passed
                /\ test_parsing_methodology(methodologies[i].code,
                                            call[p].html).success

\* a parse that stored its candidate and left it active
C5Witness ==
    \E p \in Procs :
        /\ call[p].op = "parse"
        /\ \E i \in call[p].stored : methodologies[i].is_active

\* C6: a candidate that does disallowed I/O, runs past its timeout or
\* returns a non-mapping value is never stored by parse.
SandboxContainment ==
    \A p \in Procs :
        call[p].op = "parse" =>
            \A i \in call[p].stored :
                /\ ~DoesIO(methodologies[i].code)
                /\ Run(methodologies[i].code, call[p].html)
                       \notin {"hang", "nondict"}

\* the active row of a schema is its last row, the others are inactive
LatestAddIsActive ==
    \A sid \in SchemaIds :
        RowsOf(sid) # {} =>
            LET last == CHOOSE i \in RowsOf(sid) : \A j \in RowsOf(sid) : j <= i
            IN  /\ get_parsing_methodology(sid) = last
                /\ \A i \in RowsOf(sid) \ {last} : ~methodologies[i].is_active

\* no step deletes a methodology row or changes its code or schema
RowsKept ==
    \A i \in DOMAIN methodologies :
        /\ i \in DOMAIN methodologies'
        /\ methodologies'[i].code = methodologies[i].code
        /\ methodologies'[i].schema_id = methodologies[i].schema_id

\* C7: after successful adds for a schema, get_parsing_methodology gives the
\* row of the last add; every earlier row is still there, inactive, with
\* its code unchanged.
AddKeepsHistory == [](LatestAddIsActive) /\ [][RowsKept]_vars

\* a second add for a schema has just returned the id of the new row
C7Witness ==
    \E p \in Procs :
        /\ pc[p] = "done"
        /\ call[p].op = "add"
        /\ ret[p] = IdRet(2)
        /\ RowsOf(call[p].schema_id) = {1, 2}
        /\ ~methodologies[1].is_active

\* C8: at most one generation request per schema is in flight.
OneGenerationInFlight ==
    \A sid \in SchemaIds :
        Cardinality({p \in Procs : pc[p] = "m_gen_wait"
                                   /\ call[p].schema_id = sid}) <= 1

\* C9: concurrent add_parsing_methodology calls for one schema never leave
\* two active rows of that schema.
ConcurrentAddsOneActive ==
    \A i, j \in DOMAIN methodologies :
        (/\ methodologies[i].schema_id = methodologies[j].schema_id
         /\ methodologies[i].is_active
         /\ methodologies[j].is_active) => i = j

Quiescent == \A p \in Procs : pc[p] = "idle"

\* the documents whose row carries this schema id
AssignedTo(sid) ==
    {d \in Docs : documents[d].present /\ documents[d].schema_id = sid}

\* C11: between calls, document_count of every schema equals the number of
\* distinct documents assigned to it, also after repeated calls for one
\* document and after calls whose database writes failed.
DocumentCountMatchesAssigned ==
    Quiescent =>
        \A i \in DOMAIN schemas :
            schemas[i].document_count =
                Cardinality(AssignedTo(schemas[i].schema_id))

\* document_count of the schema with this id, 0 when it has no row
CountOf(sid) ==
    IF FirstSchemaRow(sid) = 0 THEN 0
    ELSE schemas[FirstSchemaRow(sid)].document_count

\* calls i and i+1 of the run parsed two documents of one schema, and the
\* first one generated a candidate that passed validation
SharedSchemaPair(i) ==
    /\ i \in 1..(Len(history) - 1)
    /\ history[i].call.op = "parse" /\ history[i + 1].call.op = "parse"
    /\ history[i].call.document_id # history[i + 1].call.document_id
    /\ history[i].call.schema_id # None
    /\ history[i].call.schema_id = history[i + 1].call.schema_id
    /\ history[i].call.gen_calls = 1
    /\ history[i].call.passed # {}

\* C12: on a database that works, when documents A and B of one schema S
\* are parsed one after the other and A's parse generates a candidate that
\* passes validation, the generation service is called once, in A's parse,
\* and not in B's; both results carry the id of the row A's parse stored;
\* and S.document_count is 2 once B's parse has returned.
SharedSchemaGeneratedOnce ==
    \A i \in 1..(Len(history) - 1) :
        SharedSchemaPair(i) =>
            LET a == history[i]
                b == history[i + 1]
            IN  /\ b.call.gen_calls = 0
                /\ a.call.stored # {}
                /\ a.ret.methodology_id \in a.call.stored
                /\ b.ret.methodology_id = a.ret.methodology_id
                /\ (Quiescent /\ i + 1 = Len(history)) =>
                       CountOf(a.call.schema_id) = 2

\* A then B were parsed, A's candidate was stored and failed on B
C12Witness ==
    /\ SharedSchemaPair(1)
    /\ history[2].call.executed
    /\ ~history[2].ret.success
    /\ history[2].ret.methodology_id = 1

GenerationFailures == {"gen_none", "validation"}

\* calls i and i+1 of the run parsed the same document, the first one made
\* the row of its schema, and in both the generator answered nothing or its
\* candidate failed validation
NewSchemaFailsTwice(i) ==
    /\ i \in 1..(Len(history) - 1)
    /\ history[i].call.op = "parse" /\ history[i + 1].call.op = "parse"
    /\ history[i].call.document_id = history[i + 1].call.document_id
    /\ history[i].call.goc \notin {"unset", None}
    /\ history[i].call.seen_schema = {}
    /\ history[i].call.fail \in GenerationFailures
    /\ history[i + 1].call.fail \in GenerationFailures

\* C13: on a database that works, when a document of a new structure is
\* parsed twice in a row and generation or validation fails both times, the
\* first call makes the schema row with document_count 1, both calls call
\* the fallback once and return its result, and once the second call has
\* returned the schema has no active methodology and document_count 1.
NewSchemaFallsBackTwice ==
    /\ \A p \in Procs :
          (/\ ParseReturned(p)
           /\ call[p].goc \notin {"unset", None}
           /\ call[p].seen_schema = {}) => CountOf(call[p].schema_id) = 1
    /\ \A i \in 1..(Len(history) - 1) :
          NewSchemaFailsTwice(i) =>
              LET a == history[i]
                  b == history[i + 1]
              IN  /\ a.call.fallback_calls = 1 /\ a.ret = a.call.fallback_result
                  /\ b.call.fallback_calls = 1 /\ b.ret = b.call.fallback_result
                  /\ b.call.schema_id = a.call.schema_id
                  /\ (Quiescent /\ i + 1 = Len(history)) =>
                         /\ get_parsing_methodology(a.call.schema_id) = NoId
                         /\ CountOf(a.call.schema_id) = 1

\* dC was parsed twice; the generator answered nothing, then a candidate
\* that failed validation
C13Witness ==
    /\ NewSchemaFailsTwice(1)
    /\ history[1].call.document_id = "dC"
    /\ history[1].call.fail = "gen_none"
    /\ history[2].call.fail = "validation"
    /\ Quiescent

\* C14: every ParseResult parse returns has parsed_data and no error when
\* success is true, and an error and no parsed_data when success is false,
\* on every path (schema failure, execution, fallback, caught exception).
SuccessExclusive ==
    \A p \in Procs :
        (ParseReturned(p) /\ ret[p].kind = "ParseResult") =>
            IF ret[p].success
            THEN ret[p].parsed_data # NoData /\ ret[p].error = None
            ELSE ret[p].error # None /\ ret[p].parsed_data = NoData

\* a stored routine returned an empty dict: success with parsed_data {}
C14Witness ==
    \E p \in Procs :
        /\ ParseReturned(p)
        /\ call[p].executed
        /\ ret[p].success
        /\ ret[p].parsed_data = DictEmpty

\* the row a call executed: it is stored under the id the call holds, for
\* the call's schema, with the code the call ran
ExecutedRow(p) ==
    /\ call[p].mid \in DOMAIN methodologies
    /\ methodologies[call[p].mid].schema_id = call[p].schema_id
    /\ methodologies[call[p].mid].code = call[p].code

\* C15 as stated: methodology_id is null whenever the result comes from the
\* generic fallback, and is the id of the executed methodology whenever a
\* methodology was executed, whether it succeeded or failed.
MethodologyIdTellsPath ==
    \A p \in Procs :
        (ParseReturned(p) /\ ret[p].kind = "ParseResult") =>
            /\ call[p].fallback_calls >= 1 => ret[p].methodology_id = NoId
            /\ call[p].executed =>
                  /\ ExecutedRow(p)
                  /\ ret[p].methodology_id = call[p].mid

\* C15 amended: methodology_id is null whenever the result comes from the
\* generic fallback, is the id of the executed methodology whenever parse
\* returns the result of execute_methodology, whether it succeeded or
\* failed, and is null when an exception was caught after the execution.
MethodologyIdOfReturnedExecution ==
    \A p \in Procs :
        (ParseReturned(p) /\ ret[p].kind = "ParseResult") =>
            /\ call[p].fallback_calls >= 1 => ret[p].methodology_id = NoId
            /\ call[p].executed =>
                  /\ ExecutedRow(p)
                  /\ ret[p].methodology_id =
                        IF ret[p].error = "exc" THEN NoId ELSE call[p].mid

\* a stored routine failed on the document and parse returned its result
C15Witness ==
    \E p \in Procs :
        /\ ParseReturned(p)
        /\ call[p].executed /\ ~call[p].exec_ok
        /\ ret[p].error # "exc"
        /\ ret[p].methodology_id = call[p].mid
        /\ call[p].mid # NoId

\* the step of parse that follows a failed execution of a stored row
FailedExecutionRecorded(p) ==
    (/\ call[p].op = "parse"
     /\ pc[p] = "x_update"
     /\ ~call[p].exec_ok
     /\ pc'[p] # "x_update") =>
        /\ call[p].mid \in DOMAIN methodologies
        /\ methodologies[call[p].mid].is_active
        /\ DOMAIN methodologies' = DOMAIN methodologies
        /\ \A i \in DOMAIN methodologies \ {call[p].mid} :
              methodologies'[i] = methodologies[i]
        /\ LET old == methodologies[call[p].mid]
               new == methodologies'[call[p].mid]
           IN  /\ new.error_count = old.error_count + 1
               /\ new.success_count = old.success_count
               /\ new.code = old.code
               /\ new.schema_id = old.schema_id
        /\ \A i \in DOMAIN methodologies' :
              (methodologies'[i].schema_id = call[p].schema_id
               /\ methodologies'[i].is_active) <=> i = call[p].mid

\* the other steps of a parse that stores nothing leave every row alone
ParseLeavesRowsAlone(p) ==
    (/\ call[p].op = "parse"
     /\ pc[p] \notin {"x_update", "m_add_c"}) => UNCHANGED methodologies

RECURSIVE SumOf(_)
SumOf(seq) == IF seq = <<>> THEN 0 ELSE Head(seq) + SumOf(Tail(seq))

\* every update applied to the row came with a processing_time
AllTimed(m) == \A j \in DOMAIN m.times : m.times[j] # NoTime

\* C17: after k >= 1 updates of one methodology, each with a non-null
\* processing_time, avg_processing_time is the arithmetic mean of the k
\* times and k is success_count + error_count (times 2, 4, 6 give 4).  The
\* average is computed in exact arithmetic here; the code computes it in
\* binary floating point.
AverageIsMean ==
    \A i \in DOMAIN methodologies :
        LET m == methodologies[i]
            k == Len(m.times)
        IN  (k >= 1 /\ AllTimed(m)) =>
                /\ k = m.success_count + m.error_count
                /\ m.avg_processing_time = Fraction(SumOf(m.times), k)

\* three updates with the times 2, 4, 6: the average is 4
C17Witness ==
    \E i \in DOMAIN methodologies :
        /\ methodologies[i].times = <<2, 4, 6>>
        /\ methodologies[i].avg_processing_time = Fraction(4, 1)

\* row i across one step: an update applied to it raises one of its two
\* counters by 1 and leaves the other, any other step leaves both
CountersStep(i) ==
    LET old == methodologies[i]
        new == methodologies'[i]
    IN  /\ new.success_count >= old.success_count
        /\ new.error_count >= old.error_count
        /\ IF Len(new.times) = Len(old.times) + 1
           THEN (new.success_count + new.error_count)
                    = (old.success_count + old.error_count) + 1
           ELSE /\ new.times = old.times
                /\ new.success_count = old.success_count
                /\ new.error_count = old.error_count

\* an update_methodology_performance call that returns True was applied to
\* the row it names
TrueMeansApplied(p) ==
    (pc[p] = "idle" /\ ret'[p] = BoolRet(TRUE)) =>
        /\ call'[p].mid \in DOMAIN methodologies
        /\ Len(methodologies'[call'[p].mid].times)
              = Len(methodologies[call'[p].mid].times) + 1

\* C18: over any sequence of add, parse and update calls, success_count and
\* error_count of a methodology row never decrease from one state to the
\* next, and each applied update_methodology_performance call raises
\* exactly one of the two by exactly 1.
CountersOnlyGrow ==
    [][/\ \A i \in DOMAIN methodologies :
              i \in DOMAIN methodologies' /\ CountersStep(i)
       /\ \A p \in Procs : TrueMeansApplied(p)]_vars

\* a row that has counted a success and a failure
C18Witness ==
    \E i \in DOMAIN methodologies :
        /\ methodologies[i].success_count = 1
        /\ methodologies[i].error_count = 1

\* the two documents have the same first n elements
SameHead(a, b, n) == FirstN(Tags(a), n) = FirstN(Tags(b), n)

\* C20: two documents whose element sequences are identical up to the
\* 200th element and differ only afterwards get the same schema_id from
\* extract_schema_signature.
TailInsensitive ==
    \A p, q \in Procs :
        (/\ pc[p] = "done" /\ call[p].op = "extract"
         /\ pc[q] = "done" /\ call[q].op = "extract"
         /\ Len(call[p].locals.tag_names) >= HierarchyWindow
         /\ SameHead(call[p].html, call[q].html, HierarchyWindow)) =>
            ret[p].id = ret[q].id

\* process_batch has returned its stats
BatchReturned == batch.status = "returned"

\* C21: process_batch attempts every document get_unprocessed_documents
\* returned, also when earlier documents fail (missing HTML, failed parse,
\* raised exception), and on return stats['processed'] + stats['errors'] is
\* the number of documents in the batch.
BatchCountsEveryDocument ==
    BatchReturned =>
        /\ batch.attempted =
              [i \in DOMAIN batch.documents |-> batch.documents[i].document_id]
        /\ batch.stats.processed + batch.stats.errors = Len(batch.documents)

\* a batch of two returned: the first document failed, the second was
\* processed
C21Witness ==
    /\ BatchReturned
    /\ Len(batch.attempted) = 2
    /\ batch.attempted[1] = "dBad"
    /\ ~documents["dBad"].is_processed
    /\ batch.stats = [processed |-> 1, errors |-> 1]

\* C22: whenever parse returns a ParseResult with success = true, through a
\* stored methodology or the generic fallback, parsed_data is a mapping with
\* the keys document_id, jurisdiction, document_type and sections, and its
\* document_id is the id of the parsed document.
ParsedDataHasAgreedShape ==
    \A p \in Procs :
        (ParseReturned(p) /\ ret[p].kind = "ParseResult" /\ ret[p].success) =>
            /\ ret[p].parsed_data.kind = "dict"
            /\ AllKeys \subseteq ret[p].parsed_data.keys
            /\ ret[p].parsed_data.document_id = call[p].document_id

\* the parse calls of the run that executed row i
ExecutionsOf(i) ==
    {k \in DOMAIN history :
        /\ history[k].call.op = "parse"
        /\ history[k].call.executed
        /\ history[k].call.mid = i}

\* those whose performance update was committed
RecordedExecutionsOf(i) ==
    {k \in ExecutionsOf(i) :
        \E j \in DOMAIN history[k].call.updates :
            history[k].call.updates[j].applied}

\* C23 as stated: in every parse call update_methodology_performance is
\* invoked exactly once if a methodology was executed, with the success and
\* the methodology_id of the returned ParseResult, and not at all otherwise;
\* after a sequential run success_count + error_count of a methodology is
\* the number of parse calls that executed it.
UpdateMatchesReturnedResult ==
    /\ \A p \in Procs :
          (ParseReturned(p) /\ ret[p].kind = "ParseResult") =>
              IF call[p].executed
              THEN /\ Len(call[p].updates) = 1
                   /\ call[p].updates[1].success = ret[p].success
                   /\ call[p].updates[1].methodology_id = ret[p].methodology_id
              ELSE call[p].updates = <<>>
    /\ Quiescent =>
          \A i \in DOMAIN methodologies :
              methodologies[i].success_count + methodologies[i].error_count
                  = Cardinality(ExecutionsOf(i))

\* C23 amended: in every parse call update_methodology_performance is
\* invoked exactly once if a methodology was executed, with the success and
\* the methodology_id of the result of execute_methodology, which is the
\* result parse returns unless the update raises, and not at all otherwise;
\* after a sequential run success_count + error_count of a methodology is
\* the number of parse calls that executed it and whose update was
\* committed.
UpdateMatchesExecution ==
    /\ \A p \in Procs :
          (ParseReturned(p) /\ ret[p].kind = "ParseResult") =>
              IF call[p].executed
              THEN /\ Len(call[p].updates) = 1
                   /\ call[p].updates[1].success = call[p].result.success
                   /\ call[p].updates[1].methodology_id
                         = call[p].result.methodology_id
                   /\ call[p].result.methodology_id = call[p].mid
                   /\ ret[p].error # "exc" => ret[p] = call[p].result
              ELSE call[p].updates = <<>>
    /\ Quiescent =>
          \A i \in DOMAIN methodologies :
              methodologies[i].success_count + methodologies[i].error_count
                  = Cardinality(RecordedExecutionsOf(i))

\* a row executed by two parse calls, one update committed, one lost
C23Witness ==
    /\ Quiescent
    /\ \E i \in DOMAIN methodologies :
          /\ Cardinality(ExecutionsOf(i)) = 2
          /\ Cardinality(RecordedExecutionsOf(i)) = 1
          /\ methodologies[i].success_count + methodologies[i].error_count = 1

\* the value comes back from JSON as it went in
RoundTrips(value) ==
    /\ JsonDumps(value).kind = "text"
    /\ JsonLoads(JsonDumps(value)) = value

\* C24: test_parsing_methodology(code, html) returns success = true exactly
\* when the code exposes parse_html, calling it does not raise, its return
\* value is a mapping and that value round-trips through JSON without
\* loss; on success the result is that mapping and error is None, on every
\* failure the result is None and error is a message.
ValidationIsRoundTrip ==
    \A p \in Procs :
        (pc[p] = "done" /\ call[p].op = "test") =>
            LET code == call[p].code
                html == call[p].html
                value == RoutineResult(code, html)
            IN  /\ ret[p].success <=>
                      /\ Run(code, html) = "ok"
                      /\ value.kind = "dict"
                      /\ RoundTrips(value)
                /\ IF ret[p].success
                   THEN ret[p].result = value /\ ret[p].error = None
                   ELSE ret[p].result = NoData /\ ret[p].error # None

\* C25: every parse call eventually returns, even when the routine it
\* executes never returns on its own, because the execution is cut off by a
\* timeout.
ParseEventuallyReturns ==
    \A p \in Procs : (call[p].op = "parse") ~> (pc[p] = "done")

\* an add_parsing_methodology call that returned None has left the table as
\* it found it
FailedAddChangedNothing ==
    \A p \in Procs :
        (pc[p] = "done" /\ call[p].op = "add" /\ ret[p] = IdRet(NoId)) =>
            /\ Len(methodologies) = call[p].rows0
            /\ \A i \in call[p].seen : methodologies[i].is_active

\* a step that deactivates a row inserts a row
DeactivationInserts ==
    (\E i \in DOMAIN methodologies :
        /\ i \in DOMAIN methodologies'
        /\ methodologies[i].is_active
        /\ ~methodologies'[i].is_active) =>
            Len(methodologies') = Len(methodologies) + 1

\* C26: add_parsing_methodology is atomic: if it fails with a database error
\* at any point the transaction is rolled back, so the previously active
\* methodology is still active, no new record exists and the call returns
\* None; no state with the old record deactivated and no new record
\* inserted is ever committed.
AddIsAtomic == [](FailedAddChangedNothing) /\ [][DeactivationInserts]_vars

\* the response has a fenced code block
HasFence(response) == \E i \in DOMAIN response : response[i].kind # "prose"

\* C27: generate_parsing_methodology never raises and calls the generation
\* service at most once; it returns None when no API key is configured,
\* when the model cannot be initialised, when the service call raises or
\* when the extracted candidate lacks the parse_html entry point; otherwise
\* it returns the candidate, taken from a fenced code block if the response
\* has one and from the raw response text if not.
GenerateReturnsCandidateOrNone ==
    \A p \in Procs :
        call[p].op = "generate" =>
            /\ call[p].gen_calls <= 1
            /\ pc[p] = "done" =>
                  LET in == call[p].locals
                      code == ret[p].code
                  IN  /\ ret[p].kind = "code"
                      /\ (~in.api_key \/ ~in.model \/ ~in.answers) =>
                             code = NoCode
                      /\ code # NoCode =>
                             /\ call[p].gen_calls = 1
                             /\ code.entry
                             /\ IF HasFence(in.response)
                                THEN /\ code.from = "block"
                                     /\ in.response[code.part].kind # "prose"
                                     /\ in.response[code.part].entry
                                ELSE code.from = "text"
                      /\ (in.api_key /\ in.model /\ in.answers
                             /\ code = NoCode) =>
                             \/ /\ HasFence(in.response)
                                /\ \E i \in DOMAIN in.response :
                                      /\ in.response[i].kind # "prose"
                                      /\ ~in.response[i].entry
                             \/ /\ ~HasFence(in.response)
                                /\ \A i \in DOMAIN in.response :
                                      ~in.response[i].entry

\* prose with the entry point next to a fenced block without it: None
C27Witness ==
    \E p \in Procs :
        /\ pc[p] = "done" /\ call[p].op = "generate"
        /\ call[p].gen_calls = 1
        /\ ret[p] = CodeRet(NoCode)
        /\ call[p].locals.response =
              <<[kind |-> "prose", entry |-> TRUE],
                [kind |-> "block", entry |-> FALSE]>>

\* the steps of parse that resolve the schema of the document
ResolutionSteps ==
    {"p_get_document", "a_extract", "a_get_schema", "a_add_schema_q",
     "a_add_schema_c", "a_add_doctype", "a_add_document"}

\* process p is in a parse call that was given a schema_id
SuppliedParse(c) == c.op = "parse" /\ c.supplied

\* C28: when parse is called with a caller-supplied schema_id, it does not
\* fingerprint the HTML and leaves the schema registry unchanged: no schema
\* record is created and no schema's document_count or document_types
\* changes.
SuppliedSchemaLeavesRegistry ==
    [][\A p \in Procs :
          (SuppliedParse(call[p]) \/ SuppliedParse(call'[p])) =>
              /\ schemas' = schemas
              /\ pc'[p] \notin ResolutionSteps]_vars

\* a parse given the id of a registered schema ran its methodology
C28Witness ==
    \E p \in Procs :
        /\ ParseReturned(p)
        /\ call[p].supplied
        /\ call[p].executed
        /\ SchemaRows(call[p].schema_id) # {}

\* C29: when parse resolves the schema of a document that is already in
\* the database without a schema_id, the document record changes only in
\* schema_id and document_type: state_code, place_id, document_date,
\* html_path and metadata_path are left as they were.
ResolutionKeepsDocumentFields ==
    [][\A p \in Procs :
          LET d == call[p].document_id IN
          (/\ call[p].op = "parse"
           /\ pc[p] \in ResolutionSteps
           /\ documents[d].present
           /\ documents[d].schema_id = None) =>
              documents' =
                  [documents EXCEPT
                      ![d].schema_id = documents'[d].schema_id,
                      ![d].document_type = documents'[d].document_type]]_vars

\* the documents of the batch counted under this name
CountedAs(name) ==
    {batch.attempted[k] : k \in {j \in DOMAIN batch.counted :
                                    batch.counted[j] = name}}

\* C30: on return of process_batch a document is counted in
\* stats['processed'] exactly when it is marked is_processed with no
\* processing_error (and its state's and place's processed_count are
\* raised), and a document counted in stats['errors'] is left unprocessed
\* or stored with a processing_error, for every ParseResult parse can
\* return, a success with an empty mapping included.
CountsAgreeWithStore ==
    BatchReturned =>
        /\ \A d \in CountedAs("processed") \cup CountedAs("errors") :
              d \in CountedAs("processed") <=>
                  /\ documents[d].is_processed
                  /\ documents[d].processing_error = None
        /\ \A s \in StateCodes :
              states[s] = Cardinality(CountedAs("processed"))
        /\ \A s \in PlaceIds :
              places[s] = Cardinality(CountedAs("processed"))

====
